---- MODULE Spec2Model ----
(***************************************************************************)
(* The downtime leaderboard page (app/page.tsx): getData, formatDowntime   *)
(* and the async server component Home, as a state machine.  One render    *)
(* pass of Home is: enter (locals set, the request goes out), the fetch    *)
(* promise settles, the body promise of response.json() settles, and the   *)
(* JSX of one of the two return statements is evaluated.                   *)
(***************************************************************************)
EXTENDS Integers, Sequences, FiniteSets, TLC

VARIABLES
    pc,         \* position of Home: "start", "awaitFetch", "awaitJson", "done"
    requests,   \* number of calls of fetch made so far
    response,   \* the Response the fetch promise was fulfilled with
    caught,     \* the value bound to err in the catch clause of Home
    data,       \* local `data` of Home
    error,      \* local `error` of Home
    out,        \* the element Home returned
    uncaught,   \* the exception that left Home
    fmtIn,      \* argument of a direct call of formatDowntime
    fmtOut,     \* its result
    builds,     \* number of static builds started; each build is one render pass
    apiNow,     \* the body the remote API answers with at present
    published,  \* the exported page on the static host
    displayed,  \* what the browser shows after the last reload
    prev        \* retrieval result and outcome of the previous build

siteVars == <<builds, apiNow, published, displayed, prev>>

vars == <<pc, requests, response, caught, data, error, out, uncaught, fmtIn, fmtOut,
          builds, apiNow, published, displayed, prev>>

(***************************************************************************)
(* Bounds                                                                  *)
(***************************************************************************)
MaxRows == 2          \* longest data array the API answers with
MaxMinutes == 130     \* largest whole number of minutes given to formatDowntime
MaxBuilds == 2        \* number of builds of the site that are followed

(***************************************************************************)
(* JavaScript values                                                       *)
(***************************************************************************)
JsNull == [type |-> "null"]
Undefined == [type |-> "undefined"]
JsString(s) == [type |-> "string", val |-> s]

\* ToBoolean: null, undefined and the empty string are falsy, an object is truthy
Truthy(v) ==
    CASE v.type = "string" -> v.val # ""
      [] v.type \in {"null", "undefined"} -> FALSE
      [] OTHER -> TRUE

\* a number n/d, d > 0 (JSON numbers are decimal fractions)
Num(n, d) == [n |-> n, d |-> d]

\* an Error object, and a thrown value that is not an Error
JsError(name, message) == [isError |-> TRUE, name |-> name, message |-> message]
NonError == [isError |-> FALSE]

NoValue == [type |-> "none"]

(***************************************************************************)
(* formatDowntime                                                          *)
(***************************************************************************)
\* the % operator on numbers: the result has the sign of the dividend
JsRem(a, b) == IF a >= 0 THEN a % b ELSE -((-a) % b)

\* Math.floor(minutes / 60)
FloorDiv60(minutes) == minutes.n \div (60 * minutes.d)

\* Math.round(minutes % 60): the nearest integer, a tie goes up
RoundRem60(minutes) ==
    LET r == JsRem(minutes.n, 60 * minutes.d)
    IN  (2 * r + minutes.d) \div (2 * minutes.d)

\* formatDowntime showing the hours component also when it is zero
formatDowntimeAlwaysHours(minutes) ==
    LET hours == FloorDiv60(minutes)
        mins == RoundRem60(minutes)
    IN  IF hours >= 0
        THEN ToString(hours) \o "h " \o ToString(mins) \o "m"
        ELSE ToString(mins) \o "m"

\* formatDowntime carrying a remainder that rounds to 60 into the hours
formatDowntimeCarry(minutes) ==
    LET total == (2 * minutes.n + minutes.d) \div (2 * minutes.d)
        hours == total \div 60
        mins == total % 60
    IN  IF hours > 0
        THEN ToString(hours) \o "h " \o ToString(mins) \o "m"
        ELSE ToString(mins) \o "m"

formatDowntime(minutes) ==
    LET hours == FloorDiv60(minutes)
        mins == RoundRem60(minutes)
    IN  IF hours > 0
        THEN ToString(hours) \o "h " \o ToString(mins) \o "m"
        ELSE ToString(mins) \o "m"

(***************************************************************************)
(* What the remote API and the network can answer                          *)
(***************************************************************************)
Names == {"Alpha", "Beta"}
Websites == {JsNull, Undefined, JsString(""), JsString("https://alpha.example")}
Incidents == {0, 3}
Minutes == {Num(0, 1), Num(596, 10), Num(125, 1)}

Validators ==
    [name : Names, website : Websites, incidents : Incidents, minutes : Minutes]

RECURSIVE SeqsUpTo(_, _)
SeqsUpTo(S, n) ==
    IF n = 0 THEN {<<>>}
    ELSE LET shorter == SeqsUpTo(S, n - 1)
         IN  shorter \cup {Append(q, v) : q \in {r \in shorter : Len(r) = n - 1}, v \in S}

MetadataObjects ==
    [type : {"object"}, total_validators : {0, 7}, time_window : {"30 days"},
     as_of : {"2025-10-01T00:00:00Z"}]

JsArray(items) == [type |-> "array", items |-> items]

\* the values JSON.parse can produce from the body: null, and objects that
\* have or lack the two properties of ApiResponse
Payloads ==
    {JsNull} \cup
    [type : {"object"},
     metadata : {Undefined} \cup MetadataObjects,
     data : {Undefined} \cup {JsArray(q) : q \in SeqsUpTo(Validators, MaxRows)}]

\* a body is text that JSON.parse rejects, or the text of a JSON value
Malformed == [parses |-> FALSE]
JsonText(value) == [parses |-> TRUE, value |-> value]
Bodies == {Malformed} \cup {JsonText(p) : p \in Payloads}

StatusCodes == {200, 299, 300, 404, 500}

\* what the fetch promise can be rejected with
Rejections ==
    {JsError("TypeError", "fetch failed"), JsError("Error", ""), NonError}

\* the payload has the shape of interface ApiResponse
IsApiResponse(p) ==
    p.type = "object" /\ p.metadata.type = "object" /\ p.data.type = "array"

(***************************************************************************)
(* getData                                                                 *)
(***************************************************************************)
\* response.ok without the upper end of the 2xx range
ResponseOkNoUpper(status) == status >= 200

\* response.ok
ResponseOk(status) == status >= 200 /\ status <= 299

FetchFailed == JsError("Error", "Failed to fetch data")

\* response.json(): the parsed body, or a SyntaxError
ParseError == JsError("SyntaxError", "Unexpected end of JSON input")

(***************************************************************************)
(* Home: the catch clause and the two return statements                    *)
(***************************************************************************)
\* error = err instanceof Error ? err.message : 'An error occurred'
CatchMessage(err) ==
    IF err.isError THEN JsString(err.message) ELSE JsString("An error occurred")

\* the condition with the negation of data lost
ShowsErrorInverted(errorV, dataV) == Truthy(errorV) \/ Truthy(dataV)

\* the condition taking an empty data array for missing data
ShowsErrorOnEmpty(errorV, dataV) ==
    \/ Truthy(errorV)
    \/ ~Truthy(dataV)
    \/ (dataV.type = "object" /\ dataV.data.type = "array" /\ Len(dataV.data.items) = 0)

\* if (error || !data)
ShowsError(errorV, dataV) == Truthy(errorV) \/ ~Truthy(dataV)

\* the message without the fallback string
ErrorMessageNoFallback(errorV) == IF errorV.type = "string" THEN errorV.val ELSE ""

\* {error || 'No data available'}
ErrorMessage(errorV) == IF Truthy(errorV) THEN errorV.val ELSE "No data available"

ErrorElement(errorV) ==
    [type |-> "error",
     message |-> ErrorMessage(errorV),
     text |-> "Error loading data: " \o ErrorMessage(errorV)]

\* the header showing the time of the build as "Last Updated"
HeaderBuildTime(metadata) ==
    [title |-> "SOL Validator Downtime Leaderboard",
     total_validators |-> ToString(metadata.total_validators),
     time_window |-> metadata.time_window,
     as_of |-> "build " \o ToString(builds)]

Header(metadata) ==
    [title |-> "SOL Validator Downtime Leaderboard",
     total_validators |-> ToString(metadata.total_validators),
     time_window |-> metadata.time_window,
     as_of |-> metadata.as_of]

\* the website cell testing for a string instead of a truthy value
WebsiteCellAnyString(website) ==
    IF website.type = "string"
    THEN [tag |-> "a", href |-> website.val, target |-> "_blank",
          rel |-> "noopener noreferrer", text |-> website.val]
    ELSE [tag |-> "span", text |-> "N/A"]

WebsiteCell(website) ==
    IF Truthy(website)
    THEN [tag |-> "a", href |-> website.val, target |-> "_blank",
          rel |-> "noopener noreferrer", text |-> website.val]
    ELSE [tag |-> "span", text |-> "N/A"]

\* the callback of data.data.map; index is 0-based
Row(validator, index) ==
    [rank |-> ToString(index + 1),
     name |-> validator.name,
     website |-> WebsiteCell(validator.website),
     downtime |-> formatDowntime(validator.minutes),
     incidents |-> ToString(validator.incidents)]

\* the rows sorted by downtime, longest first, before they are numbered
RECURSIVE SortByMinutes(_)
SortByMinutes(items) ==
    IF Len(items) = 0 THEN <<>>
    ELSE LET worst == CHOOSE i \in 1..Len(items) :
                        \A j \in 1..Len(items) :
                            \/ items[j].minutes.n * items[i].minutes.d
                                 < items[i].minutes.n * items[j].minutes.d
                            \/ /\ items[j].minutes.n * items[i].minutes.d
                                    = items[i].minutes.n * items[j].minutes.d
                               /\ i <= j
             rest == [k \in 1..(Len(items) - 1) |->
                        IF k < worst THEN items[k] ELSE items[k + 1]]
         IN  <<items[worst]>> \o SortByMinutes(rest)

RowsSorted(items) ==
    LET sorted == SortByMinutes(items)
    IN  [i \in 1..Len(sorted) |-> Row(sorted[i], i - 1)]

\* data.data.map((validator, index) => <tr>...</tr>)
Rows(items) == [i \in 1..Len(items) |-> Row(items[i], i - 1)]

TableHead == <<"#", "Validator Name", "Website", "Downtime", "Incidents">>

SuccessElement(dataV) ==
    [type |-> "page",
     header |-> Header(dataV.metadata),
     head |-> TableHead,
     rows |-> Rows(dataV.data.items)]

\* reading a property of null or undefined while the JSX is evaluated
RenderThrows(dataV) ==
    \/ dataV.type # "object"
    \/ dataV.metadata.type = "undefined"
    \/ dataV.data.type = "undefined"

RenderError == JsError("TypeError", "Cannot read properties of undefined or null")

\* Home from the end of the try statement to its return
Finish(dataV, errorV) ==
    /\ pc' = "done"
    /\ data' = dataV
    /\ error' = errorV
    /\ IF ShowsError(errorV, dataV)
       THEN out' = ErrorElement(errorV) /\ uncaught' = NoValue
       ELSE IF RenderThrows(dataV)
            THEN out' = NoValue /\ uncaught' = RenderError
            ELSE out' = SuccessElement(dataV) /\ uncaught' = NoValue

\* getData threw err and nothing catches it
CatchRethrow(err) ==
    /\ caught' = err
    /\ pc' = "done"
    /\ out' = NoValue
    /\ uncaught' = err
    /\ UNCHANGED <<data, error>>

\* getData threw err and Home starts over
CatchRetry(err) ==
    /\ caught' = err
    /\ pc' = "start"
    /\ UNCHANGED <<data, error, out, uncaught>>

\* getData threw err: the catch clause, then the rest of Home
Catch(err) ==
    /\ caught' = err
    /\ Finish(data, CatchMessage(err))

(***************************************************************************)
(* The render pass                                                         *)
(***************************************************************************)
Init ==
    /\ pc = "start"
    /\ requests = 0
    /\ response = NoValue
    /\ caught = NoValue
    /\ data = NoValue
    /\ error = NoValue
    /\ out = NoValue
    /\ uncaught = NoValue
    /\ fmtIn = NoValue
    /\ fmtOut = NoValue
    /\ builds = 1
    /\ apiNow = NoValue
    /\ published = NoValue
    /\ displayed = NoValue
    /\ prev = NoValue

\* Home returning an element before the request has been answered
HomeEnterEager ==
    /\ pc = "start"
    /\ data' = JsNull
    /\ error' = JsNull
    /\ requests' = requests + 1
    /\ pc' = "awaitFetch"
    /\ out' = ErrorElement(JsNull)
    /\ UNCHANGED <<response, caught, uncaught, fmtIn, fmtOut>>
    /\ UNCHANGED siteVars

\* Home is called: the locals are set and getData calls fetch
HomeEnter ==
    /\ pc = "start"
    /\ data' = JsNull
    /\ error' = JsNull
    /\ requests' = requests + 1
    /\ pc' = "awaitFetch"
    /\ UNCHANGED <<response, caught, out, uncaught, fmtIn, fmtOut>>
    /\ UNCHANGED siteVars

\* the fetch promise is rejected (no connection, DNS failure, abort)
FetchRejects ==
    /\ pc = "awaitFetch"
    /\ \E err \in Rejections : Catch(err)
    /\ UNCHANGED <<requests, response, fmtIn, fmtOut>>
    /\ UNCHANGED siteVars

\* the fetch promise is fulfilled with a Response
FetchFulfils ==
    /\ pc = "awaitFetch"
    /\ \E status \in StatusCodes :
          /\ response' = [status |-> status, body |-> NoValue]
          /\ IF ~ResponseOk(status)
             THEN Catch(FetchFailed)
             ELSE /\ pc' = "awaitJson"
                  /\ UNCHANGED <<caught, data, error, out, uncaught>>
    /\ UNCHANGED <<requests, fmtIn, fmtOut>>
    /\ UNCHANGED siteVars

\* the promise of response.json() settles, the body being one of bodies
JsonSettlesWith(bodies) ==
    /\ pc = "awaitJson"
    /\ \E body \in bodies :
          /\ response' = [response EXCEPT !.body = body]
          /\ IF ~body.parses
             THEN Catch(ParseError)
             ELSE caught' = caught /\ Finish(body.value, error)
    /\ UNCHANGED <<requests, fmtIn, fmtOut>>
    /\ UNCHANGED siteVars

\* the promise of response.json() settles
JsonSettles == JsonSettlesWith(Bodies)

Next == HomeEnter \/ FetchRejects \/ FetchFulfils \/ JsonSettles

Spec == Init /\ [][Next]_vars

(***************************************************************************)
(* formatDowntime called on its own                                        *)
(***************************************************************************)
Denominators == {1, 2, 10}

FormatInputs == {Num(n, d) : n \in 0..(MaxMinutes * 10), d \in Denominators}

InitFmt ==
    /\ pc = "start"
    /\ requests = 0
    /\ response = NoValue
    /\ caught = NoValue
    /\ data = NoValue
    /\ error = NoValue
    /\ out = NoValue
    /\ uncaught = NoValue
    /\ fmtIn \in {m \in FormatInputs : m.n <= MaxMinutes * m.d}
    /\ fmtOut = NoValue
    /\ builds = 1
    /\ apiNow = NoValue
    /\ published = NoValue
    /\ displayed = NoValue
    /\ prev = NoValue

FormatCall ==
    /\ fmtOut = NoValue
    /\ fmtOut' = JsString(formatDowntime(fmtIn))
    /\ UNCHANGED <<pc, requests, response, caught, data, error, out, uncaught, fmtIn>>
    /\ UNCHANGED siteVars

NextFmt == FormatCall

SpecFmt == InitFmt /\ [][NextFmt]_vars

(***************************************************************************)
(* The static site: builds, the exported page and page reloads             *)
(*                                                                         *)
(* `dynamic = 'force-static'`, `revalidate = false` and `output: 'export'` *)
(* make Home run once per build; the export is what the host serves.       *)
(***************************************************************************)
\* the leaderboards the API holds over time: two of the shape of
\* ApiResponse, and an object of another shape
SiteAlpha ==
    [name |-> "Alpha", website |-> JsString("https://alpha.example"),
     incidents |-> 3, minutes |-> Num(125, 1)]
SiteBeta ==
    [name |-> "Beta", website |-> JsNull, incidents |-> 0, minutes |-> Num(596, 10)]
SiteMetadata(as_of) ==
    [type |-> "object", total_validators |-> 7, time_window |-> "30 days", as_of |-> as_of]

SitePayloads ==
    {[type |-> "object", metadata |-> SiteMetadata("2025-10-01T00:00:00Z"),
      data |-> JsArray(<<SiteAlpha>>)],
     [type |-> "object", metadata |-> SiteMetadata("2025-10-02T00:00:00Z"),
      data |-> JsArray(<<SiteBeta, SiteAlpha>>)],
     [type |-> "object", metadata |-> Undefined, data |-> Undefined]}

SiteBodies == {Malformed} \cup {JsonText(p) : p \in SitePayloads}

\* what the network gave the pass: the Response with its body, or the
\* value the fetch promise was rejected with
RetrievalResult ==
    [response |-> response,
     rejection |-> IF response = NoValue THEN caught ELSE NoValue]

InitSite ==
    /\ pc = "start"
    /\ requests = 0
    /\ response = NoValue
    /\ caught = NoValue
    /\ data = NoValue
    /\ error = NoValue
    /\ out = NoValue
    /\ uncaught = NoValue
    /\ fmtIn = NoValue
    /\ fmtOut = NoValue
    /\ builds = 1
    /\ apiNow \in SiteBodies
    /\ published = NoValue
    /\ displayed = NoValue
    /\ prev = NoValue

\* the body of the response is what the API holds when it is read
SiteJsonSettles == JsonSettlesWith({apiNow})

\* the build ends: the export of a pass that returned an element replaces
\* the page on the host; a pass that threw fails the build and deploys nothing
Deploy ==
    /\ pc = "done"
    /\ pc' = "exported"
    /\ published' = IF uncaught = NoValue
                    THEN [page |-> out, build |-> builds]
                    ELSE published
    /\ UNCHANGED <<requests, response, caught, data, error, out, uncaught, fmtIn, fmtOut,
                   builds, apiNow, displayed, prev>>

\* a push to the main branch starts the next build: a new process, a new pass
Rebuild ==
    /\ pc = "exported"
    /\ builds < MaxBuilds
    /\ builds' = builds + 1
    /\ prev' = [result |-> RetrievalResult, out |-> out, uncaught |-> uncaught]
    /\ pc' = "start"
    /\ response' = NoValue
    /\ caught' = NoValue
    /\ data' = NoValue
    /\ error' = NoValue
    /\ out' = NoValue
    /\ uncaught' = NoValue
    /\ UNCHANGED <<requests, fmtIn, fmtOut, apiNow, published, displayed>>

\* the remote service updates its leaderboard
ApiChanges ==
    /\ pc = "exported"
    /\ \E body \in SiteBodies \ {apiNow} : apiNow' = body
    /\ UNCHANGED <<pc, requests, response, caught, data, error, out, uncaught, fmtIn, fmtOut,
                   builds, published, displayed, prev>>

\* a visitor reloads the page: the host answers with the exported file and
\* Home does not run
Reload ==
    /\ pc = "exported"
    /\ published # NoValue
    /\ displayed' = published.page
    /\ displayed' # displayed
    /\ UNCHANGED <<pc, requests, response, caught, data, error, out, uncaught, fmtIn, fmtOut,
                   builds, apiNow, published, prev>>

NextSite ==
    \/ HomeEnter \/ FetchRejects \/ FetchFulfils \/ SiteJsonSettles
    \/ Deploy \/ Rebuild \/ ApiChanges \/ Reload

SpecSite == InitSite /\ [][NextSite]_vars

(***************************************************************************)
(* Properties of the render pass                                           *)
(***************************************************************************)
\* how the retrieval of a finished pass went, read from what the network gave
FetchRejected == response = NoValue
BadStatus == response # NoValue /\ response.status \notin 200..299
BodyRead == response # NoValue /\ response.body # NoValue
BadBody == BodyRead /\ ~response.body.parses
RetrievalFailed == FetchRejected \/ BadStatus \/ BadBody
RetrievalSucceeded == BodyRead /\ response.status \in 200..299 /\ response.body.parses

IsErrorState == out # NoValue /\ out.type = "error"
IsSuccessState == out # NoValue /\ out.type = "page"
NoTableMarkup == DOMAIN out \cap {"header", "head", "rows"} = {}

\* C1: when the retrieval returns a non-2xx status, the pass ends in the
\* Error state, with a non-empty message and no header, table or rows.
C1_NonSuccessStatusGivesError ==
    (pc = "done" /\ BadStatus) =>
        /\ IsErrorState
        /\ out.message # ""
        /\ out.text = "Error loading data: Failed to fetch data"
        /\ NoTableMarkup
        /\ uncaught = NoValue

C1_Witness == pc = "done" /\ BadStatus /\ response.status = 404 /\ IsErrorState

\* C2: every failure of the retrieval (bad status, rejected fetch, body that
\* does not parse) is caught in Home and becomes the Error state; the message
\* shown is the failure's description, or a fixed fallback string when the
\* failure has none, and it is never empty.
C2_EveryFailureBecomesErrorState ==
    (pc = "done" /\ RetrievalFailed) =>
        /\ caught # NoValue
        /\ uncaught = NoValue
        /\ IsErrorState
        /\ out.message # ""
        /\ out.text = "Error loading data: " \o out.message
        /\ IF caught.isError /\ caught.message # ""
           THEN out.message = caught.message
           ELSE out.message \in {"An error occurred", "No data available"}
        /\ BadBody => caught.name = "SyntaxError"
        /\ FetchRejected => caught \in Rejections

C2_Witness ==
    /\ pc = "done" /\ FetchRejected
    /\ caught = JsError("Error", "")
    /\ IsErrorState /\ out.message = "No data available"

\* C3 as stated: whenever the retrieval succeeds, for every payload it can
\* return, the pass enters the Success state.
C3_Original == (pc = "done" /\ RetrievalSucceeded) => IsSuccessState

\* C3 amended: whenever the retrieval succeeds with a payload of the shape of
\* ApiResponse the pass enters the Success state (header and table); a
\* payload of null is shown as the Error state "No data available".
C3_SuccessForApiResponse ==
    (pc = "done" /\ RetrievalSucceeded) =>
        LET payload == response.body.value
        IN  /\ IsApiResponse(payload) =>
                /\ IsSuccessState
                /\ DOMAIN out = {"type", "header", "head", "rows"}
                /\ out.head = TableHead
                /\ uncaught = NoValue
            /\ payload = JsNull =>
                /\ IsErrorState
                /\ out.message = "No data available"

C3_Witness ==
    /\ pc = "done" /\ RetrievalSucceeded
    /\ IsApiResponse(response.body.value)
    /\ Len(response.body.value.data.items) = 2
    /\ IsSuccessState

C5_SingleRequestNoRetry ==
    /\ pc = "start" => requests = 0
    /\ pc # "start" => requests = 1
    /\ (RetrievalFailed /\ pc # "awaitFetch" /\ pc # "start") => pc = "done"

C5_Witness == pc = "done" /\ RetrievalFailed /\ requests = 1 /\ IsErrorState

\* C6: in the Success state the table has one row per validator of the data
\* received, in the order received, and the rank cell of row i is i whatever
\* the incidents and minutes are.
C6_RowsInReceivedOrder ==
    IsSuccessState =>
        LET items == response.body.value.data.items
        IN  /\ Len(out.rows) = Len(items)
            /\ \A i \in 1..Len(items) :
                  /\ out.rows[i].rank = ToString(i)
                  /\ out.rows[i].name = items[i].name
                  /\ out.rows[i].incidents = ToString(items[i].incidents)
                  /\ out.rows[i].downtime = formatDowntime(items[i].minutes)

\* two validators arrive with the shorter downtime first
C6_Witness ==
    /\ IsSuccessState
    /\ Len(out.rows) = 2
    /\ response.body.value.data.items[1].minutes = Num(0, 1)
    /\ response.body.value.data.items[2].minutes = Num(125, 1)
    /\ out.rows[1].downtime = "0m" /\ out.rows[2].rank = "2"

\* C7: a successful response with an empty data array renders the Success
\* state: zero rows and a header with the metadata as supplied.
C7_EmptyDataIsSuccess ==
    (pc = "done" /\ RetrievalSucceeded /\ IsApiResponse(response.body.value)
        /\ response.body.value.data.items = <<>>) =>
        LET metadata == response.body.value.metadata
        IN  /\ IsSuccessState
            /\ out.rows = <<>>
            /\ out.head = TableHead
            /\ out.header.total_validators = ToString(metadata.total_validators)
            /\ out.header.time_window = metadata.time_window
            /\ out.header.as_of = metadata.as_of

C7_Witness ==
    /\ pc = "done" /\ RetrievalSucceeded /\ IsApiResponse(response.body.value)
    /\ response.body.value.data.items = <<>>
    /\ response.body.value.metadata.total_validators = 7
    /\ IsSuccessState /\ out.header.total_validators = "7"

IsLinkTo(cell, url) ==
    /\ cell.tag = "a" /\ cell.href = url /\ cell.text = url
    /\ cell.target = "_blank"
IsPlaceholder(cell) == cell = [tag |-> "span", text |-> "N/A"]

\* C8 as stated: the website cell is a link to the website string when the
\* website is present (a string) and the placeholder "N/A" when it is null or
\* absent.
C8_Original ==
    IsSuccessState =>
        \A i \in 1..Len(out.rows) :
            LET website == response.body.value.data.items[i].website
            IN  IF website.type = "string"
                THEN IsLinkTo(out.rows[i].website, website.val)
                ELSE IsPlaceholder(out.rows[i].website)

\* C8 amended: the website cell is a link, opening externally, whose target
\* and text are the website string when the website is a non-empty string,
\* and the placeholder "N/A" when it is null, absent or the empty string.
C8_WebsiteLinkOrPlaceholder ==
    IsSuccessState =>
        \A i \in 1..Len(out.rows) :
            LET website == response.body.value.data.items[i].website
            IN  IF website.type = "string" /\ website.val # ""
                THEN IsLinkTo(out.rows[i].website, website.val)
                ELSE IsPlaceholder(out.rows[i].website)

C8_Witness ==
    /\ IsSuccessState /\ Len(out.rows) = 2
    /\ response.body.value.data.items[1].website = JsString("")
    /\ response.body.value.data.items[2].website = JsString("https://alpha.example")
    /\ IsPlaceholder(out.rows[1].website)
    /\ out.rows[2].website.href = "https://alpha.example"

(***************************************************************************)
(* Properties of formatDowntime                                            *)
(***************************************************************************)
Formatted == fmtOut # NoValue

HoursRange == 1..(MaxMinutes \div 60 + 1)
MinsRange == 0..60

HoursMinutesForm(s) ==
    \E h \in HoursRange, m \in MinsRange : s = ToString(h) \o "h " \o ToString(m) \o "m"
MinutesForm(s) == \E m \in MinsRange : s = ToString(m) \o "m"

\* C9: for non-negative minutes the result has the form "{h}h {m}m" exactly
\* when minutes >= 60 and the form "{m}m" otherwise, with no negative number
\* in it; formatDowntime(0) = "0m" and formatDowntime(125) = "2h 5m".
C9_FormatDowntimeForm ==
    (Formatted /\ fmtIn.n >= 0) =>
        /\ HoursMinutesForm(fmtOut.val) <=> fmtIn.n >= 60 * fmtIn.d
        /\ MinutesForm(fmtOut.val) <=> fmtIn.n < 60 * fmtIn.d
        /\ fmtIn.n = 0 => fmtOut.val = "0m"
        /\ fmtIn.n = 125 * fmtIn.d => fmtOut.val = "2h 5m"

C9_Witness == Formatted /\ fmtIn = Num(125, 1) /\ fmtOut.val = "2h 5m"

\* C10: the hours component is floor(minutes / 60); the minutes component is
\* the remainder rounded to the nearest integer; a remainder that rounds to
\* 60 stays in the minutes component (59.6 gives "60m").
C10_FloorHoursRoundedRemainder ==
    Formatted =>
        \E h \in 0..(MaxMinutes \div 60 + 1), m \in MinsRange :
            /\ fmtOut.val = IF h > 0
                            THEN ToString(h) \o "h " \o ToString(m) \o "m"
                            ELSE ToString(m) \o "m"
            /\ 60 * h * fmtIn.d <= fmtIn.n
            /\ fmtIn.n < 60 * (h + 1) * fmtIn.d
            /\ LET twiceOff == 2 * (fmtIn.n - 60 * h * fmtIn.d - m * fmtIn.d)
               IN  -fmtIn.d <= twiceOff /\ twiceOff <= fmtIn.d
            /\ fmtIn.n * 10 = 596 * fmtIn.d => (h = 0 /\ m = 60)

C10_Witness == Formatted /\ fmtIn = Num(596, 10) /\ fmtOut.val = "60m"

(***************************************************************************)
(* Properties of the suspension and of the parse failure                   *)
(***************************************************************************)
\* C13: while the request is outstanding nothing is rendered: the locals
\* still hold null, no element has been returned and nothing has been
\* thrown; an element exists only once the pass is done, after the fetch
\* promise has settled.
C13_NothingRenderedWhileOutstanding ==
    /\ pc \in {"awaitFetch", "awaitJson"} =>
          /\ out = NoValue /\ uncaught = NoValue
          /\ data = JsNull /\ error = JsNull
          /\ requests >= 1
    /\ pc = "start" => out = NoValue
    /\ (out # NoValue \/ uncaught # NoValue) =>
          /\ pc \in {"done", "exported"}
          /\ response # NoValue \/ caught # NoValue

C13_Witness ==
    /\ pc = "awaitJson" /\ response.status = 200 /\ response.body = NoValue
    /\ requests = 1 /\ out = NoValue

\* C14 as stated: a success status with a body that is not JSON ends the
\* pass with an uncaught parse failure and no rendered state.
C14_Original ==
    (pc = "done" /\ BadBody /\ response.status \in 200..299) =>
        (uncaught # NoValue /\ out = NoValue)

\* C14 amended: getData has no handler for the parse failure (its status
\* check is its only explicit error path), so the SyntaxError leaves getData;
\* the catch clause of Home catches it and the pass renders the Error state
\* with the parse failure's message; nothing is left uncaught.
C14_ParseFailureCaughtByHome ==
    (pc = "done" /\ BadBody /\ response.status \in 200..299) =>
        /\ caught # NoValue
        /\ caught.isError /\ caught.name = "SyntaxError"
        /\ caught # JsError("Error", "Failed to fetch data")
        /\ uncaught = NoValue
        /\ IsErrorState
        /\ out.text = "Error loading data: " \o caught.message
        /\ data = JsNull

C14_Witness ==
    /\ pc = "done" /\ BadBody /\ response.status = 200
    /\ IsErrorState /\ out.message = "Unexpected end of JSON input"

(***************************************************************************)
(* Properties of the site                                                  *)
(***************************************************************************)
\* C11: rendering is determined by the retrieval result: a pass that is given
\* the same retrieval result as the pass of the previous build ends with the
\* same element (same header, rows and cells) or the same failure, whatever
\* the number of the build.
C11_SameInputSameOutput ==
    (pc = "done" /\ prev # NoValue /\ RetrievalResult = prev.result) =>
        /\ out = prev.out
        /\ uncaught = prev.uncaught
        /\ IsSuccessState =>
              /\ out.header.as_of = response.body.value.metadata.as_of
              /\ out.header.time_window = response.body.value.metadata.time_window

C11_Witness ==
    /\ pc = "done" /\ builds = 2 /\ prev # NoValue
    /\ RetrievalResult = prev.result
    /\ IsSuccessState /\ Len(out.rows) = 2
    /\ out = prev.out

\* C12: every reload of the page retrieves from the API afresh, so the page
\* shown after a reload is the rendering of the data the API holds at that
\* reload.
C12_ReloadShowsCurrentData ==
    [][(displayed' # displayed) =>
          /\ requests' = requests + 1
          /\ (apiNow.parses /\ IsApiResponse(apiNow.value)) =>
                displayed' = SuccessElement(apiNow.value)]_vars

====
